---------------------------- MODULE Spec2Model ----------------------------
(***************************************************************************)
(* A model of the two command-line utilities of microGWASutils:            *)
(*                                                                         *)
(*   scripts/vep_highest_impact.py   Loader -> Selector -> sort -> Renamer *)
(*   scripts/annotate_vep_regenie.py Merger                                *)
(*                                                                         *)
(* Three specifications share the module:                                  *)
(*   Spec        main() of vep_highest_impact.py, from the table the       *)
(*               Loader returns to the file written to --out;              *)
(*   LoaderSpec  read_vep_annotation_file(), statement by statement, with  *)
(*               the file system it touches and the Extra strings parsed   *)
(*               character by character;                                   *)
(*   MergerSpec  main() of annotate_vep_regenie.py.                        *)
(*                                                                         *)
(* A table (pandas DataFrame) is a sequence of rows; each row carries its  *)
(* pandas index label in the field "index".  A Python str that the code    *)
(* splits is a sequence of pieces, so that splitting is computed.          *)
(***************************************************************************)
EXTENDS Integers, Sequences, FiniteSets, TLC

VARIABLES
    \* ---- vep_highest_impact.py, main() ----
    pc,             \* position in main()
    vep_df,         \* result of read_vep_annotation_file
    selected_rows,  \* the list built by the group loop of the Selector
    selected_df,    \* result of select_highest_impact_rows
    sorted_vep_df,  \* result of sort_df_by_index
    rename,         \* args.rename.split(","), <<>> while --rename is not read
    out,            \* the file at --out
    \* ---- read_vep_annotation_file ----
    lpc,            \* position in the Loader
    input_file,     \* the file at file_path
    tmp_file,       \* the file at file_path + '.tmp'
    ldf,            \* the Loader's local df
    \* ---- annotate_vep_regenie.py, main() ----
    mpc,            \* position in main()
    vep_tsv,        \* the file at --vep
    regenie_tsv,    \* the file at --regenie
    merged_df,      \* result of DataFrame.merge
    mout            \* the file at --out

pipeVars   == <<pc, vep_df, selected_rows, selected_df, sorted_vep_df, rename, out>>
loaderVars == <<lpc, input_file, tmp_file, ldf>>
mergerVars == <<mpc, vep_tsv, regenie_tsv, merged_df, mout>>
vars       == <<pipeVars, loaderVars, mergerVars>>

---------------------------------------------------------------------------
(* Bounds *)

\* Largest number of data rows of a VEP table.
MaxRows == 3

\* Location values, named by their rank in groupby's sorted key order.
Locations == {1, 2}

\* Uploaded_variation values, each a str cut into pieces at its '_' characters.
UploadedVariations ==
    { <<"chr1", "_", "12345">>, <<"chr2", "_", "7", "_", "A/G">>, <<"rs9">> }

\* Extra mappings (sets of <<key, value>> pairs) of loaded rows.
Extras ==
    { {<<"IMPACT", "HIGH">>}, {<<"DISTANCE", "5">>}, {<<"DISTANCE", "10">>} }

\* Values of --rename, each the list args.rename.split(",").
Prefixes == { <<"sampleA", "x", "y">>, <<"s2">> }

---------------------------------------------------------------------------
(* Helpers on sequences *)

Range(s) == { s[i] : i \in DOMAIN s }

RECURSIVE SortSet(_)
\* The elements of a finite set of integers in ascending order.
SortSet(S) ==
    IF S = {} THEN <<>>
    ELSE LET m == CHOOSE x \in S : \A y \in S : x <= y
         IN  <<m>> \o SortSet(S \ {m})

RECURSIVE Concat(_)
\* The concatenation of a sequence of sequences.
Concat(ss) == IF ss = <<>> THEN <<>> ELSE Head(ss) \o Concat(Tail(ss))

---------------------------------------------------------------------------
(* Tables of vep_highest_impact.py *)

\* A DataFrame, or Python's None.
NoneDF == [none |-> TRUE, rows |-> <<>>]
DF(rows) == [none |-> FALSE, rows |-> rows]

\* A file that does not exist, and a written tab-separated file.
NoFile == [exists |-> FALSE, rows |-> <<>>]
File(rows) == [exists |-> TRUE, rows |-> rows]

\* The rows a VEP file can hold (the columns the code reads).
RowData == [Uploaded_variation : UploadedVariations,
            Location : Locations,
            Extra : Extras]

\* read_csv gives the rows the default RangeIndex 0, 1, 2, ...
WithIndex(t) ==
    [i \in 1..Len(t) |->
        [index |-> i - 1,
         Uploaded_variation |-> t[i].Uploaded_variation,
         Location |-> t[i].Location,
         Extra |-> t[i].Extra]]

\* The tables the Loader can return: at least one row (read_csv raises on none).
LoadedTables == UNION { [1..n -> RowData] : n \in 1..MaxRows }

---------------------------------------------------------------------------
(* select_highest_impact_rows *)

\* 'DISTANCE' in row['Extra']
HasKey(extra, k) == \E p \in extra : p[1] = k

\* df.groupby('Location'): the group of one key, in original row order.
Group(rows, loc) == SelectSeq(rows, LAMBDA r : r.Location = loc)

\* The group keys in the order groupby iterates them (sorted).
GroupKeys(rows) == SortSet({ rows[i].Location : i \in DOMAIN rows })

\* group.loc[label]
Loc(group, label) == group[CHOOSE i \in DOMAIN group : group[i].index = label]

\* Mutant: a scan without the break always ends on the last row.
ScanEnd_NoBreak(group, k) == Len(group)

RECURSIVE ScanEnd(_, _)
\* The position the loop "for index, row in group.iterrows()" ends on when it
\* starts at position k: the first row without DISTANCE (break), else the last.
ScanEnd(group, k) ==
    IF ~HasKey(group[k].Extra, "DISTANCE") THEN k
    ELSE IF k = Len(group) THEN k
    ELSE ScanEnd(group, k + 1)

\* Mutant: a scan that keeps the first row of the group.
SelectGroup_First(group) == <<group[1]>>

\* What one iteration of "for _, group in grouped" appends to selected_rows.
SelectGroup(group) ==
    IF Len(group) = 1 THEN <<group[1]>>
    ELSE LET k        == ScanEnd(group, 1)
             row      == group[k]
             index    == row.index
             inLoop   == IF ~HasKey(row.Extra, "DISTANCE") THEN <<row>> ELSE <<>>
             \* lowest_distance_idx is still None here, so the test of
             \* line 73 is true without its comparison being evaluated.
             lowest_distance_idx_is_None == TRUE
         IN  IF lowest_distance_idx_is_None
             THEN inLoop \o <<Loc(group, index)>>
             ELSE inLoop

\* selected_rows after the loop over the groups.
SelectedRows(rows) ==
    LET keys == GroupKeys(rows)
    IN  Concat([j \in 1..Len(keys) |-> SelectGroup(Group(rows, keys[j]))])

\* Mutant: no de-duplication.
DropDuplicates_None(rows) == rows

\* Mutant: keep the last occurrence.
DropDuplicates_Last(rows) ==
    LET keep == { i \in DOMAIN rows :
                    \A j \in (i+1)..Len(rows) :
                        rows[j].Uploaded_variation # rows[i].Uploaded_variation }
        ks == SortSet(keep)
    IN  [n \in 1..Len(ks) |-> rows[ks[n]]]

\* drop_duplicates(subset=['Uploaded_variation']): keep the first occurrence.
DropDuplicates(rows) ==
    LET keep == { i \in DOMAIN rows :
                    \A j \in 1..(i-1) :
                        rows[j].Uploaded_variation # rows[i].Uploaded_variation }
        ks == SortSet(keep)
    IN  [n \in 1..Len(ks) |-> rows[ks[n]]]

\* df.sort_index(): ascending index label.
sort_df_by_index(rows) ==
    LET labels == SortSet({ rows[i].index : i \in DOMAIN rows })
    IN  Concat([n \in 1..Len(labels) |->
                  SelectSeq(rows, LAMBDA r : r.index = labels[n])])

\* Mutant: sort by index inside the Selector, before the de-duplication.
select_highest_impact_rows_SortFirst(rows) ==
    DropDuplicates(sort_df_by_index(SelectedRows(rows)))

\* The table select_highest_impact_rows returns.
select_highest_impact_rows(rows) == DropDuplicates(SelectedRows(rows))

---------------------------------------------------------------------------
(* rename_snps_in_df *)

RECURSIVE Split(_, _)
\* str.split(sep) on a str given as a sequence of pieces.
Split(s, sep) ==
    IF \A i \in DOMAIN s : s[i] # sep THEN <<s>>
    ELSE LET i == CHOOSE n \in DOMAIN s :
                     s[n] = sep /\ \A m \in 1..(n-1) : s[m] # sep
         IN  <<SubSeq(s, 1, i - 1)>> \o Split(SubSeq(s, i + 1, Len(s)), sep)

\* var_name[1] exists
CanRename(uv) == Len(Split(uv, "_")) >= 2

\* prefix[0] + ':' + 'contig_' + var_name[0] + ':' + var_name[1]
NewName(uv, prefix) ==
    LET var_name == Split(uv, "_")
    IN  <<prefix[1], ":", "contig_">> \o var_name[1] \o <<":">> \o var_name[2]

\* The table with every identifier rewritten.
rename_snps_in_df(rows, prefix) ==
    [i \in DOMAIN rows |->
        [rows[i] EXCEPT !.Uploaded_variation = NewName(@, prefix)]]

\* to_csv(index=False): the rows without their index label.
Written(rows) ==
    File([i \in DOMAIN rows |->
            [Uploaded_variation |-> rows[i].Uploaded_variation,
             Location |-> rows[i].Location,
             Extra |-> rows[i].Extra]])

---------------------------------------------------------------------------
(* main() of vep_highest_impact.py *)

PipeInit ==
    /\ pc = "start"
    /\ vep_df = NoneDF
    /\ selected_rows = <<>>
    /\ selected_df = <<>>
    /\ sorted_vep_df = <<>>
    /\ rename = <<>>
    /\ out = NoFile

\* vep_df = read_vep_annotation_file(file_path), the file exists and parses.
Load ==
    /\ pc = "start"
    /\ \E t \in LoadedTables : vep_df' = DF(WithIndex(t))
    /\ pc' = "loaded"
    /\ UNCHANGED <<selected_rows, selected_df, sorted_vep_df, rename, out>>
    /\ UNCHANGED <<loaderVars, mergerVars>>

\* vep_df = read_vep_annotation_file(file_path), the file does not exist.
LoadMissing ==
    /\ pc = "start"
    /\ vep_df' = NoneDF
    /\ pc' = "loaded"
    /\ UNCHANGED <<selected_rows, selected_df, sorted_vep_df, rename, out>>
    /\ UNCHANGED <<loaderVars, mergerVars>>

\* selected_df = select_highest_impact_rows(vep_df)
Select ==
    /\ pc = "loaded"
    /\ ~vep_df.none
    /\ selected_rows' = SelectedRows(vep_df.rows)
    /\ selected_df' = select_highest_impact_rows(vep_df.rows)
    /\ pc' = "selected"
    /\ UNCHANGED <<vep_df, sorted_vep_df, rename, out>>
    /\ UNCHANGED <<loaderVars, mergerVars>>

\* select_highest_impact_rows(None): df.columns raises AttributeError.
SelectNone ==
    /\ pc = "loaded"
    /\ vep_df.none
    /\ pc' = "crashed"
    /\ UNCHANGED <<vep_df, selected_rows, selected_df, sorted_vep_df, rename, out>>
    /\ UNCHANGED <<loaderVars, mergerVars>>

\* sorted_vep_df = sort_df_by_index(selected_df)
Sort ==
    /\ pc = "selected"
    /\ sorted_vep_df' = sort_df_by_index(selected_df)
    /\ pc' = "sorted"
    /\ UNCHANGED <<vep_df, selected_rows, selected_df, rename, out>>
    /\ UNCHANGED <<loaderVars, mergerVars>>

\* args.rename == None: sorted_vep_df.to_csv(args.out, ...)
WritePlain ==
    /\ pc = "sorted"
    /\ out' = Written(sorted_vep_df)
    /\ pc' = "written"
    /\ UNCHANGED <<vep_df, selected_rows, selected_df, sorted_vep_df, rename>>
    /\ UNCHANGED <<loaderVars, mergerVars>>

\* --rename given: rename_snps_in_df, then to_csv.  The assignment
\* row['Uploaded_variation'] = ... writes to the Series iterrows yields; pandas
\* leaves open whether that Series is a view of the table or a copy of the row
\* ("depending on the data types, the iterator returns a copy and not a view,
\* and writing to it will have no effect"), so both outcomes are possible.
WriteRenamed ==
    /\ pc = "sorted"
    /\ \A i \in DOMAIN sorted_vep_df : CanRename(sorted_vep_df[i].Uploaded_variation)
    /\ \E prefix \in Prefixes, view \in BOOLEAN :
          LET result_df == IF view THEN rename_snps_in_df(sorted_vep_df, prefix)
                           ELSE sorted_vep_df
          IN  /\ rename' = prefix
              /\ sorted_vep_df' = result_df
              /\ out' = Written(result_df)
              /\ pc' = IF view THEN "renamed_view" ELSE "renamed_copy"
    /\ UNCHANGED <<vep_df, selected_rows, selected_df>>
    /\ UNCHANGED <<loaderVars, mergerVars>>

\* --rename given and an identifier has no '_': var_name[1] raises IndexError.
\* Rows before it may already have been rewritten (when the Series is a view).
RenameFails ==
    /\ pc = "sorted"
    /\ \E i \in DOMAIN sorted_vep_df :
          /\ ~CanRename(sorted_vep_df[i].Uploaded_variation)
          /\ \A j \in 1..(i-1) : CanRename(sorted_vep_df[j].Uploaded_variation)
          /\ \E prefix \in Prefixes, view \in BOOLEAN :
                /\ rename' = prefix
                /\ sorted_vep_df' =
                      IF view
                      THEN [j \in DOMAIN sorted_vep_df |->
                              IF j < i THEN rename_snps_in_df(sorted_vep_df, prefix)[j]
                              ELSE sorted_vep_df[j]]
                      ELSE sorted_vep_df
    /\ pc' = "crashed"
    /\ UNCHANGED <<vep_df, selected_rows, selected_df, out>>
    /\ UNCHANGED <<loaderVars, mergerVars>>

PipeNext ==
    \/ Load
    \/ LoadMissing
    \/ Select
    \/ SelectNone
    \/ Sort
    \/ WritePlain
    \/ WriteRenamed
    \/ RenameFails

---------------------------------------------------------------------------
(* read_vep_annotation_file: the input file *)

\* The number of column names the Loader assigns.
NumColumns == 14

\* Largest number of lines of an input file.
MaxLines == 2

\* Largest number of characters of a raw Extra field.
MaxExtraLen == 5

\* The characters of raw Extra fields.
ExtraAlphabet == {"K", "=", ";"}

\* The raw Extra fields: a str is the sequence of its characters.
ExtraStrings == UNION { [1..n -> ExtraAlphabet] : n \in 0..MaxExtraLen }

\* The lines of an input file: a '#' line, a data line one field short (it has
\* no Extra field), or a data line of NumColumns fields with its Extra field.
CommentLine == [comment |-> TRUE, nfields |-> 0, Extra |-> <<>>]
ShortLine == [comment |-> FALSE, nfields |-> NumColumns - 1, Extra |-> <<>>]
FullLine(x) == [comment |-> FALSE, nfields |-> NumColumns, Extra |-> x]
InputLines == {CommentLine, ShortLine} \cup { FullLine(x) : x \in ExtraStrings }

InputFiles == { File(ls) : ls \in UNION { [1..n -> InputLines] : n \in 0..MaxLines } }

---------------------------------------------------------------------------
(* read_vep_annotation_file: parsing *)

\* A cell of the table read_csv returns: a str, or NaN for a missing field
\* (a field that is empty, or absent from a row shorter than the table).
NaN == [nan |-> TRUE, str |-> <<>>]
Str(x) == [nan |-> FALSE, str |-> x]

\* The Extra cell read_csv gives a data line.
ExtraCell(line) ==
    IF line.nfields < NumColumns \/ line.Extra = <<>> THEN NaN ELSE Str(line.Extra)

\* read_csv(header=None) raises: no data line at all (EmptyDataError), or a
\* line with more fields than the first one (ParserError).
ReadCsvRaises(lines) ==
    \/ lines = <<>>
    \/ \E i \in DOMAIN lines : lines[i].nfields > lines[1].nfields

\* The table read_csv returns: as wide as the first line, shorter lines padded.
ReadCsvTable(lines) ==
    [i \in DOMAIN lines |->
        [index |-> i - 1, width |-> lines[1].nfields, Extra |-> ExtraCell(lines[i])]]

\* item for item in x.split(';') if '=' in item
ItemsWithEquals(x) ==
    SelectSeq(Split(x, ";"), LAMBDA item : \E i \in DOMAIN item : item[i] = "=")

\* item.split('=')
SplitItem(item) == Split(item, "=")

\* The sequences dict() is given for one cell.
ExtraPairs(x) ==
    LET items == ItemsWithEquals(x)
    IN  [i \in DOMAIN items |-> SplitItem(items[i])]

\* The lambda of line 37 raises: NaN has no split (AttributeError), or dict()
\* is given a sequence that is not of length 2 (ValueError).
ParseExtraRaises(cell) ==
    \/ cell.nan
    \/ \E p \in Range(ExtraPairs(cell.str)) : Len(p) # 2

\* dict(pairs): a set of <<key, value>>, a later pair replacing an earlier one
\* with the same key.
Dict(pairs) ==
    { <<pairs[i][1], pairs[i][2]>> :
        i \in { n \in DOMAIN pairs :
                  \A m \in (n+1)..Len(pairs) : pairs[m][1] # pairs[n][1] } }

\* The mapping the lambda of line 37 returns.
ParseExtra(cell) == Dict(ExtraPairs(cell.str))

---------------------------------------------------------------------------
(* read_vep_annotation_file: the statements *)

LoaderInit ==
    /\ lpc = "start"
    /\ input_file \in {NoFile} \cup InputFiles
    /\ tmp_file = NoFile
    /\ ldf = NoneDF

\* The with statement: both files open, the lines not starting with '#' are
\* copied to file_path + '.tmp'.
FilterComments ==
    /\ lpc = "start"
    /\ input_file.exists
    /\ tmp_file' = File(SelectSeq(input_file.rows, LAMBDA l : ~l.comment))
    /\ lpc' = "filtered"
    /\ UNCHANGED <<input_file, ldf>>
    /\ UNCHANGED <<pipeVars, mergerVars>>

\* open(file_path, 'r') raises FileNotFoundError before the second open: the
\* except clause prints and the Loader returns None.
FileNotFound ==
    /\ lpc = "start"
    /\ ~input_file.exists
    /\ lpc' = "returned_none"
    /\ UNCHANGED <<input_file, tmp_file, ldf>>
    /\ UNCHANGED <<pipeVars, mergerVars>>

\* df = pd.read_csv(file_path + '.tmp', ...)
ReadCsv ==
    /\ lpc = "filtered"
    /\ ~ReadCsvRaises(tmp_file.rows)
    /\ ldf' = DF(ReadCsvTable(tmp_file.rows))
    /\ lpc' = "read"
    /\ UNCHANGED <<input_file, tmp_file>>
    /\ UNCHANGED <<pipeVars, mergerVars>>

\* pd.read_csv raises; the exception is not a FileNotFoundError and leaves the
\* Loader.
ReadCsvFails ==
    /\ lpc = "filtered"
    /\ ReadCsvRaises(tmp_file.rows)
    /\ lpc' = "raised"
    /\ UNCHANGED <<input_file, tmp_file, ldf>>
    /\ UNCHANGED <<pipeVars, mergerVars>>

\* df.columns = [the 14 names]
SetColumns ==
    /\ lpc = "read"
    /\ ldf.rows[1].width = NumColumns
    /\ lpc' = "named"
    /\ UNCHANGED <<input_file, tmp_file, ldf>>
    /\ UNCHANGED <<pipeVars, mergerVars>>

\* df.columns = ... raises ValueError (length mismatch).
SetColumnsFails ==
    /\ lpc = "read"
    /\ ldf.rows[1].width # NumColumns
    /\ lpc' = "raised"
    /\ UNCHANGED <<input_file, tmp_file, ldf>>
    /\ UNCHANGED <<pipeVars, mergerVars>>

\* df['Extra'] = df['Extra'].apply(lambda x: dict(...))
ParseExtraColumn ==
    /\ lpc = "named"
    /\ \A i \in DOMAIN ldf.rows : ~ParseExtraRaises(ldf.rows[i].Extra)
    /\ ldf' = DF([i \in DOMAIN ldf.rows |->
                    [ldf.rows[i] EXCEPT !.Extra = ParseExtra(@)]])
    /\ lpc' = "parsed"
    /\ UNCHANGED <<input_file, tmp_file>>
    /\ UNCHANGED <<pipeVars, mergerVars>>

\* The lambda raises on some cell.
ParseExtraColumnFails ==
    /\ lpc = "named"
    /\ \E i \in DOMAIN ldf.rows : ParseExtraRaises(ldf.rows[i].Extra)
    /\ lpc' = "raised"
    /\ UNCHANGED <<input_file, tmp_file, ldf>>
    /\ UNCHANGED <<pipeVars, mergerVars>>

\* os.remove(file_path + '.tmp'); return df
RemoveTmp ==
    /\ lpc = "parsed"
    /\ tmp_file' = NoFile
    /\ lpc' = "returned"
    /\ UNCHANGED <<input_file, ldf>>
    /\ UNCHANGED <<pipeVars, mergerVars>>

LoaderNext ==
    \/ FilterComments
    \/ FileNotFound
    \/ ReadCsv
    \/ ReadCsvFails
    \/ SetColumns
    \/ SetColumnsFails
    \/ ParseExtraColumn
    \/ ParseExtraColumnFails
    \/ RemoveTmp

---------------------------------------------------------------------------
(* annotate_vep_regenie.py: the input files *)

\* Largest number of data rows of a file given to the Merger.
MaxTableRows == 2

\* The text of a key cell (Uploaded_variation or ID), a sequence of characters.
KeyCells == { <<"r", "s", "1">>, <<"7">>, <<"0", "7">> }

\* The header of the --vep file: the column names vep_highest_impact.py writes.
VepColumns ==
    <<"Uploaded_variation", "Location", "Allele", "Gene", "Feature",
      "Feature_type", "Consequence", "cDNA_position", "CDS_position",
      "Protein_position", "Amino_acids", "Codons", "Existing_variation", "Extra">>

\* Headers of the --regenie file; the last one has no ID column.
RegenieHeaders ==
    { <<"ID", "BETA">>, <<"CHROM", "ID", "LOG10P">>, <<"CHROM", "LOG10P">> }

\* A tab-separated file with a header row; a row is given by its key cell.
Tsv(header, cells) == [exists |-> TRUE, header |-> header, rows |-> cells]

KeyColumns == UNION { [1..n -> KeyCells] : n \in 0..MaxTableRows }

---------------------------------------------------------------------------
(* annotate_vep_regenie.py: read_csv and merge *)

DigitValue == ("0" :> 0) @@ ("1" :> 1) @@ ("7" :> 7)

\* The cell is an integer literal.
IsInt(cell) == cell # <<>> /\ \A i \in DOMAIN cell : cell[i] \in DOMAIN DigitValue

RECURSIVE IntOf(_)
\* The integer an integer literal denotes.
IntOf(cell) ==
    IF cell = <<>> THEN 0
    ELSE 10 * IntOf(SubSeq(cell, 1, Len(cell) - 1)) + DigitValue[cell[Len(cell)]]

\* The dtype read_csv infers for a column: int64 when every cell is an integer
\* literal, object (str) otherwise and for a column without rows.
DType(cells) ==
    IF cells # <<>> /\ \A i \in DOMAIN cells : IsInt(cells[i]) THEN "int64" ELSE "object"

\* The column read_csv returns: the integers, or the strings.
ReadColumn(cells) ==
    [i \in DOMAIN cells |->
        IF DType(cells) = "int64"
        THEN [dtype |-> "int64", int |-> IntOf(cells[i]), str |-> <<>>]
        ELSE [dtype |-> "object", int |-> 0, str |-> cells[i]]]

\* regenie_df has the column the merge is asked to join on.
HasIdColumn(header) == \E i \in DOMAIN header : header[i] = "ID"

\* merge refuses to join an int64 key column with a column of str when both
\* tables have rows (ValueError: "You are trying to merge on ...").
MergeRaises(left, right) ==
    /\ left # <<>>
    /\ right # <<>>
    /\ DType(left) # DType(right)

\* Mutant: a left join keeps every VEP row.
InnerJoin_Left(left, right) ==
    Concat([i \in DOMAIN left |->
        LET m == SelectSeq([j \in DOMAIN right |-> [left |-> i, right |-> j]],
                           LAMBDA q : left[q.left] = right[q.right])
        IN  IF m = <<>> THEN <<[left |-> i, right |-> 0]>> ELSE m])

\* merge(how='inner'): the pairs of a left and a right row with equal keys, in
\* the order of the left rows.  An output row is named by the two rows it joins.
InnerJoin(left, right) ==
    Concat([i \in DOMAIN left |->
        SelectSeq([j \in DOMAIN right |-> [left |-> i, right |-> j]],
                  LAMBDA q : left[q.left] = right[q.right])])

\* vep_df.columns.tolist() + regenie_df.columns.tolist()
BothHeaders(vepHeader, regenieHeader) == vepHeader \o regenieHeader

---------------------------------------------------------------------------
(* main() of annotate_vep_regenie.py *)

MergerInit ==
    /\ mpc = "start"
    /\ \E cells \in KeyColumns : vep_tsv = Tsv(VepColumns, cells)
    /\ \E header \in RegenieHeaders, cells \in KeyColumns :
          regenie_tsv = Tsv(header, cells)
    /\ merged_df = <<>>
    /\ mout = NoFile

\* merge raises KeyError: regenie_df has no ID column.
MergeKeyError ==
    /\ mpc = "start"
    /\ ~HasIdColumn(regenie_tsv.header)
    /\ mpc' = "raised"
    /\ UNCHANGED <<vep_tsv, regenie_tsv, merged_df, mout>>
    /\ UNCHANGED <<pipeVars, loaderVars>>

\* merge raises ValueError: the key columns have incompatible dtypes.
MergeValueError ==
    /\ mpc = "start"
    /\ HasIdColumn(regenie_tsv.header)
    /\ MergeRaises(vep_tsv.rows, regenie_tsv.rows)
    /\ mpc' = "raised"
    /\ UNCHANGED <<vep_tsv, regenie_tsv, merged_df, mout>>
    /\ UNCHANGED <<pipeVars, loaderVars>>

\* The merge returns no row: the table of both headers is written.
MergeEmpty ==
    /\ mpc = "start"
    /\ HasIdColumn(regenie_tsv.header)
    /\ ~MergeRaises(vep_tsv.rows, regenie_tsv.rows)
    /\ merged_df' = InnerJoin(ReadColumn(vep_tsv.rows), ReadColumn(regenie_tsv.rows))
    /\ merged_df' = <<>>
    /\ mout' = Tsv(BothHeaders(vep_tsv.header, regenie_tsv.header), <<>>)
    /\ mpc' = "written"
    /\ UNCHANGED <<vep_tsv, regenie_tsv>>
    /\ UNCHANGED <<pipeVars, loaderVars>>

\* The merge returns rows: merged_df is written.  Its columns are those of
\* vep_df followed by those of regenie_df (no name is in both headers).
MergeRows ==
    /\ mpc = "start"
    /\ HasIdColumn(regenie_tsv.header)
    /\ ~MergeRaises(vep_tsv.rows, regenie_tsv.rows)
    /\ merged_df' = InnerJoin(ReadColumn(vep_tsv.rows), ReadColumn(regenie_tsv.rows))
    /\ merged_df' # <<>>
    /\ mout' = Tsv(vep_tsv.header \o regenie_tsv.header, merged_df')
    /\ mpc' = "written"
    /\ UNCHANGED <<vep_tsv, regenie_tsv>>
    /\ UNCHANGED <<pipeVars, loaderVars>>

MergerNext ==
    \/ MergeKeyError
    \/ MergeValueError
    \/ MergeEmpty
    \/ MergeRows

---------------------------------------------------------------------------
(* The programs that are not running *)

PipeIdle ==
    /\ pc = "idle"
    /\ vep_df = NoneDF
    /\ selected_rows = <<>>
    /\ selected_df = <<>>
    /\ sorted_vep_df = <<>>
    /\ rename = <<>>
    /\ out = NoFile

LoaderIdle ==
    /\ lpc = "idle"
    /\ input_file = NoFile
    /\ tmp_file = NoFile
    /\ ldf = NoneDF

MergerIdle ==
    /\ mpc = "idle"
    /\ vep_tsv = NoFile
    /\ regenie_tsv = NoFile
    /\ merged_df = <<>>
    /\ mout = NoFile

---------------------------------------------------------------------------
(* Specification of vep_highest_impact.py *)

Init == PipeInit /\ LoaderIdle /\ MergerIdle

Next == PipeNext

Spec == Init /\ [][Next]_vars

---------------------------------------------------------------------------
(* Specification of read_vep_annotation_file *)

LoaderSpecInit == LoaderInit /\ PipeIdle /\ MergerIdle

LoaderSpec == LoaderSpecInit /\ [][LoaderNext]_vars

---------------------------------------------------------------------------
(* Specification of annotate_vep_regenie.py *)

MergerSpecInit == MergerInit /\ PipeIdle /\ LoaderIdle

MergerSpec == MergerSpecInit /\ [][MergerNext]_vars

---------------------------------------------------------------------------
(* Claims about the Selector *)

\* The Selector has returned.
Selected == pc \in {"selected", "sorted", "written", "renamed_view", "renamed_copy"}

\* The positions of a table whose row is at Location loc.
At(rows, loc) == { i \in DOMAIN rows : rows[i].Location = loc }

\* The Location values of the input table.
InputLocations == { vep_df.rows[i].Location : i \in DOMAIN vep_df.rows }

\* The input rows of one Location Group.
GroupOf(loc) == { r \in Range(vep_df.rows) : r.Location = loc }

\* A row selected for a Location that sorts before loc carries the identifier uv.
TakenEarlier(loc, uv) ==
    \E q \in Range(selected_rows) : q.Location < loc /\ q.Uploaded_variation = uv

\* C1: the table the Selector returns never holds two rows with the same
\* Uploaded_variation.
C1_NoDuplicateVariation ==
    \A i, j \in DOMAIN selected_df :
        i # j => selected_df[i].Uploaded_variation # selected_df[j].Uploaded_variation

\* C1 witness: the group loop appended two rows with one identifier, and the
\* Selector returned.
C1_Witness ==
    /\ pc = "selected"
    /\ \E i, j \in DOMAIN selected_rows :
          i # j /\ selected_rows[i].Uploaded_variation = selected_rows[j].Uploaded_variation
    /\ Len(selected_df) >= 2

\* C2 as stated: the Selector output holds exactly one row for each Location
\* of the input.
C2_ExactlyOnePerLocation ==
    Selected =>
        \A loc \in InputLocations : Cardinality(At(selected_df, loc)) = 1

\* C2 amended: the Selector output holds at most one row for each Location of
\* the input, and a Location has no row exactly when the row selected for it
\* carries the Uploaded_variation of a row selected for a Location that sorts
\* before it.
C2_AtMostOnePerLocation ==
    Selected =>
        \A loc \in InputLocations :
            /\ Cardinality(At(selected_df, loc)) <= 1
            /\ (At(selected_df, loc) = {}) <=>
                  (\E r \in Range(selected_rows) :
                      r.Location = loc /\ TakenEarlier(loc, r.Uploaded_variation))

\* C2 witness: a Location of the input is missing from the output, and another
\* Location's no-DISTANCE row was appended twice and is output once.
C2_Witness ==
    /\ pc = "selected"
    /\ \E loc \in InputLocations : At(selected_df, loc) = {}
    /\ Len(selected_rows) >= 3
    /\ Len(selected_df) = 1

\* The first row of a group without a DISTANCE key, in original row order.
FirstWithoutDistance(g) ==
    CHOOSE r \in g :
        /\ ~HasKey(r.Extra, "DISTANCE")
        /\ \A q \in g : ~HasKey(q.Extra, "DISTANCE") => r.index <= q.index

\* The last row of a group in original row order.
LastOf(g) == CHOOSE r \in g : \A q \in g : q.index <= r.index

Kept(uv) ==
    CHOOSE r \in Range(sorted_vep_df) : r.Uploaded_variation = uv

\* The selected rows that carry the identifier uv.
SelectedWith(uv) == { r \in Range(selected_rows) : r.Uploaded_variation = uv }

\* The table is in ascending order of original row index.
AscendingIndex(rows) ==
    \A i, j \in DOMAIN rows : i < j => rows[i].index < rows[j].index

\* C8 as stated: among the selected rows that share an Uploaded_variation, the
\* one kept in the output is the one with the smallest original row index.
C8_KeepsSmallestIndex ==
    pc = "sorted" =>
        \A s \in Range(selected_rows) :
            \A q \in SelectedWith(s.Uploaded_variation) :
                Kept(s.Uploaded_variation).index <= q.index

\* C8 amended: the selected rows are de-duplicated first, in the order of the
\* group loop (ascending Location), and only then ordered by original row
\* index: among the selected rows that share an Uploaded_variation the one kept
\* is the one whose Location sorts first, and the output is in index order.
C8_KeepsFirstLocation ==
    pc = "sorted" =>
        /\ AscendingIndex(sorted_vep_df)
        /\ \A s \in Range(selected_rows) :
              /\ \E r \in Range(sorted_vep_df) : r.Uploaded_variation = s.Uploaded_variation
              /\ \A q \in SelectedWith(s.Uploaded_variation) :
                    Kept(s.Uploaded_variation).Location <= q.Location

\* C8 witness: two selected rows share an Uploaded_variation, the one with the
\* larger index is at the Location that sorts first, and it is the one kept.
C8_Witness ==
    /\ pc = "sorted"
    /\ \E s, q \in Range(selected_rows) :
          /\ s.Uploaded_variation = q.Uploaded_variation
          /\ s.Location < q.Location
          /\ s.index > q.index
          /\ s \in Range(sorted_vep_df)
          /\ q \notin Range(sorted_vep_df)

---------------------------------------------------------------------------
(* Claims about the Renamer *)

\* C5: with --rename, the file written to --out holds
\* prefix[0]:contig_part0:part1 in the Uploaded_variation of every selected row.
C5_RenameStored ==
    pc \in {"renamed_view", "renamed_copy"} =>
        LET before == sort_df_by_index(selected_df)
        IN  /\ Len(out.rows) = Len(before)
            /\ \A i \in DOMAIN out.rows :
                  out.rows[i].Uploaded_variation =
                      NewName(before[i].Uploaded_variation, rename)

---------------------------------------------------------------------------
(* Claims about the Loader *)

\* The Loader call has ended: it returned a table, returned None, or raised.
LoaderEnded == lpc \in {"returned", "returned_none", "raised"}

\* The data lines of the input file.
DataLines == SelectSeq(input_file.rows, LAMBDA l : ~l.comment)

\* A segment cut at its first '=' only: the key before it, the value after it.
CutAtFirstEquals(item) ==
    LET i == CHOOSE n \in DOMAIN item : item[n] = "=" /\ \A m \in 1..(n-1) : item[m] # "="
    IN  <<SubSeq(item, 1, i - 1), SubSeq(item, i + 1, Len(item))>>

\* The mapping the claim describes: the segments with a '=' are cut at their
\* first '=' only, the other segments are dropped.
FirstEqualsMapping(x) ==
    LET items == ItemsWithEquals(x)
    IN  Dict([i \in DOMAIN items |-> CutAtFirstEquals(items[i])])

\* C9: every raw Extra string becomes the mapping got by splitting on ';' and
\* each segment on its first '=' only; the Loader does not fail on a segment
\* with more than one '='.
C9_SplitOnFirstEquals ==
    ( /\ LoaderEnded
      /\ input_file.exists
      /\ DataLines # <<>>
      /\ \A i \in DOMAIN DataLines :
            DataLines[i].nfields = NumColumns /\ DataLines[i].Extra # <<>> )
    => /\ lpc = "returned"
       /\ \A i \in DOMAIN DataLines :
             ldf.rows[i].Extra = FirstEqualsMapping(DataLines[i].Extra)

\* C10: whenever a Loader call ends, no file '<path>.tmp' is left behind.
C10_TmpRemoved == LoaderEnded => ~tmp_file.exists

---------------------------------------------------------------------------
(* Claims about the Merger *)

\* The key columns of the two tables, as read.
LeftKeys == ReadColumn(vep_tsv.rows)
RightKeys == ReadColumn(regenie_tsv.rows)

\* The pairs (VEP row, regenie row) with Uploaded_variation equal to ID.
MatchingPairs ==
    { p \in (DOMAIN LeftKeys) \X (DOMAIN RightKeys) : LeftKeys[p[1]] = RightKeys[p[2]] }

\* C6: with no Uploaded_variation equal to any ID, the Merger does not fail and
\* writes zero data rows under the VEP header followed by the regenie header.
C6_NoMatchWritesBothHeaders ==
    ( /\ mpc \in {"written", "raised"}
      /\ HasIdColumn(regenie_tsv.header)
      /\ MatchingPairs = {} )
    => /\ mpc = "written"
       /\ mout.exists
       /\ mout.rows = <<>>
       /\ mout.header = vep_tsv.header \o regenie_tsv.header

\* C7: the Merger output holds one row for every pair (VEP row, regenie row)
\* with Uploaded_variation equal to ID, and no other row.
C7_InnerJoin ==
    mpc = "written" =>
        /\ \A p \in MatchingPairs :
              Cardinality({ n \in DOMAIN mout.rows :
                              mout.rows[n] = [left |-> p[1], right |-> p[2]] }) = 1
        /\ \A n \in DOMAIN mout.rows :
              <<mout.rows[n].left, mout.rows[n].right>> \in MatchingPairs

\* C7 witness: a VEP row and a regenie row match nothing, another pair matches,
\* and the output is written.
C7_Witness ==
    /\ mpc = "written"
    /\ MatchingPairs # {}
    /\ \E i \in DOMAIN LeftKeys : \A p \in MatchingPairs : p[1] # i
    /\ \E j \in DOMAIN RightKeys : \A p \in MatchingPairs : p[2] # j
    /\ Len(mout.rows) = Cardinality(MatchingPairs)

===========================================================================
